---- MODULE Spec2Model ----
(***************************************************************************)
(* Shipment prediction and calendar redistribution engine (src/src/calc.py) *)
(* and the calculation loop that drives it (src/app.py).                  *)
(*                                                                         *)
(* Numbers.  The code computes with Python floats.  A list of proportions  *)
(* is modelled as a sequence of non-negative numerators `num` over one     *)
(* common positive denominator `den` (proportion i is num[i] / den).  The  *)
(* float product total * p differs from the exact rational by a rounding   *)
(* error far smaller than 1/den; only its sign can change a floor or a     *)
(* comparison, so a float is a pair [x, e]: the exact numerator x over den *)
(* and the sign e in {-1, 0, 1} of the rounding error.  The signs are      *)
(* fixed by the inputs but not known to the model: every assignment the    *)
(* arithmetic allows is explored (RoundingErrors).  Dates are day numbers  *)
(* counted from a Monday (day 0, taken as 2024-01-01 where the month       *)
(* matters), so date.weekday() is d % 7 and adding a timedelta is integer  *)
(* addition.                                                               *)
(***************************************************************************)
EXTENDS Integers, Sequences, FiniteSets, TLC

VARIABLES
    pc,             \* position of the call being modelled
    total_integer,  \* allocator argument
    proportions,    \* allocator argument: [num |-> <<..>>, den |-> d]
    rounding,       \* sign of the float rounding error of each total * p
    alloc,          \* what the allocator call produced
    house,          \* predict_single_house's scalar arguments
    distribution_ratio, \* predict_single_house's pattern argument
    total_boxes,    \* predict_single_house's local total_boxes
    outcome,        \* "ok" or the exception predict_single_house raised
    records,        \* a list of shipment records (the adjuster's argument)
    adjusted,       \* adjust_to_shipping_days(records)
    readjusted,     \* adjust_to_shipping_days(adjusted)
    input_df,       \* app.py: the input rows of the batch
    index,          \* app.py: the row the calculation loop is at (from 1)
    all_predictions,        \* app.py: the records collected by the loop
    enable_shipping_adjust, \* app.py: the shipping-day checkbox
    coeff_season,   \* app.py: coeff_spring, coeff_summer, coeff_autumn, coeff_winter
    session_state   \* app.py: st.session_state's 'all_predictions' entry

vars == <<pc, total_integer, proportions, rounding, alloc, house,
          distribution_ratio, total_boxes, outcome, records, adjusted, readjusted,
          input_df, index, all_predictions, enable_shipping_adjust, coeff_season,
          session_state>>

allocVars == <<total_integer, proportions, rounding, alloc>>
houseVars == <<house, distribution_ratio, total_boxes, outcome>>
adjustVars == <<records, adjusted, readjusted>>
batchVars == <<input_df, index, all_predictions, enable_shipping_adjust,
               coeff_season, session_state>>

----------------------------------------------------------------------------
(* Bounds of the explored inputs *)

MaxLen == 3        \* longest proportion list
MaxDen == 5        \* largest common denominator of a proportion list
MaxTotal == 6      \* largest total handed to the allocator directly
MaxNeg == 1        \* the allocator is also handed the totals -MaxNeg .. -1
MaxRecs == 2       \* longest record list handed to the adjuster directly
MaxBoxes == 1      \* largest box count of a record handed to the adjuster
MaxPatDen == 2     \* largest denominator of the enumerated patterns
MaxRows == 2       \* most rows of an input sheet

----------------------------------------------------------------------------
(* Helpers on sequences *)

RECURSIVE SumSeq(_)
SumSeq(s) == IF s = <<>> THEN 0 ELSE Head(s) + SumSeq(Tail(s))

SeqsUpTo(S, n) == UNION { [1..k -> S] : k \in 1..n }

----------------------------------------------------------------------------
(* Results of a call: a returned value or a raised exception *)

Returned(v) == [status |-> "ok", value |-> v]
Raised(e) == [status |-> e, value |-> <<>>]

\* a shipment record: the dict predict_single_house and the adjuster build
ShipmentRecord(id, d, b) ==
    [date |-> d, producer |-> id[1], house_name |-> id[2], variety |-> id[3],
     color |-> id[4], shape |-> id[5], boxes |-> b]

----------------------------------------------------------------------------
(* Float arithmetic *)

\* The slots whose rounding error can change the result: the exact product
\* is an integer (the float may lie below it, and floor gives one less) or
\* its exact remainder equals that of a slot holding another proportion (the
\* comparison of the two is decided by the errors).  0 * p and total * 0 are
\* exact.
Sensitive(total, p) ==
    { i \in 1..Len(p.num) :
        /\ total # 0 /\ p.num[i] # 0
        /\ \/ (total * p.num[i]) % p.den = 0
           \/ \E j \in 1..Len(p.num) :
                /\ p.num[j] # p.num[i]
                /\ (total * p.num[j]) % p.den = (total * p.num[i]) % p.den }

\* The rounding-error signs the products total * p[i] can have.  Equal
\* proportions are the same float and give the same product; an error that
\* cannot change the result is left 0.
RoundingErrors(total, p) ==
    LET S == Sensitive(total, p)
        N == { p.num[i] : i \in S }
    IN { [i \in 1..Len(p.num) |-> IF i \in S THEN f[p.num[i]] ELSE 0] :
            f \in [N -> {-1, 0, 1}] }

\* float comparison a > b
FloatGreater(a, b) == a.x > b.x \/ (a.x = b.x /\ a.e > b.e)

----------------------------------------------------------------------------
(* largest_remainder_method, calc.py 6-36 *)

\* raw_values = [total_integer * p for p in proportions]
raw_values(total, p, err) ==
    [i \in 1..Len(p.num) |-> [x |-> total * p.num[i], e |-> err[i]]]

\* faulty variant: round(v) in place of floor(v)
int_parts_rounded(total, p, err) ==
    [i \in 1..Len(p.num) |-> (2 * total * p.num[i] + p.den) \div (2 * p.den)]

\* faulty variant: ceil(v) in place of floor(v)
int_parts_ceil(total, p, err) ==
    [i \in 1..Len(p.num) |-> (total * p.num[i] + p.den - 1) \div p.den]

\* int_parts = [floor(v) for v in raw_values]: a product that should be the
\* integer k but was rounded below it floors to k - 1
int_parts(total, p, err) ==
    LET raw == raw_values(total, p, err)
    IN [i \in 1..Len(p.num) |->
          IF raw[i].x % p.den = 0 /\ raw[i].e < 0 THEN raw[i].x \div p.den - 1
          ELSE raw[i].x \div p.den]

\* remainders = [v - i for v, i in zip(raw_values, int_parts)]
remainders(total, p, err) ==
    LET raw == raw_values(total, p, err)
        ints == int_parts(total, p, err)
    IN [i \in 1..Len(p.num) |-> [x |-> raw[i].x - ints[i] * p.den, e |-> raw[i].e]]

\* leftover = total_integer - sum(int_parts)
leftover(total, p, err) == total - SumSeq(int_parts(total, p, err))

\* faulty variant: among equal remainders the later slot comes first
SortsBeforeLastWins(rem, i, j) ==
    FloatGreater(rem[i], rem[j]) \/ (rem[i] = rem[j] /\ i > j)

\* faulty variant: reverse=True forgotten, smallest remainder first
SortsBeforeAscending(rem, i, j) ==
    FloatGreater(rem[j], rem[i]) \/ (rem[i] = rem[j] /\ i < j)

\* The order sorted(..., key=remainder, reverse=True) puts two slots in:
\* larger remainder first; the sort is stable, so equal remainders keep
\* their original order.
SortsBefore(rem, i, j) == FloatGreater(rem[i], rem[j]) \/ (rem[i] = rem[j] /\ i < j)

\* indexed_remainders = sorted(enumerate(remainders), key=lambda x: x[1], reverse=True)
\* as the sequence of slot indices in sorted order
indexed_remainders(total, p, err) ==
    LET n == Len(p.num)
        \* SubSeq(s, 1, Len(s)) is s, held as an evaluated tuple
        rem == SubSeq(remainders(total, p, err), 1, n)
        rank == SubSeq([i \in 1..n |->
                    Cardinality({j \in 1..n : SortsBefore(rem, j, i)})], 1, n)
    IN [k \in 1..n |-> CHOOSE i \in 1..n : rank[i] = k - 1]

\* faulty variant: the check of the total's sign is missing
largest_remainder_method_unchecked(total, p, err) ==
    LET n == Len(p.num)
        left == leftover(total, p, err)
        order == indexed_remainders(total, p, err)
        base == int_parts(total, p, err)
        extra == { order[k] : k \in 1..left }
    IN IF left > n THEN Raised("IndexError")
       ELSE Returned([i \in 1..n |-> base[i] + IF i \in extra THEN 1 ELSE 0])

\* the whole function: ValueError on a negative total; the loop
\* `for i in range(leftover)` indexes indexed_remainders[i], which raises
\* IndexError once i reaches len(proportions); range of a negative number is empty.
largest_remainder_method(total, p, err) ==
    IF total < 0 THEN Raised("ValueError")
    ELSE LET n == Len(p.num)
             left == leftover(total, p, err)
             order == indexed_remainders(total, p, err)
             base == int_parts(total, p, err)
             \* the slots `for i in range(leftover)` adds 1 to
             extra == { order[k] : k \in 1..left }
         IN IF left > n THEN Raised("IndexError")
            ELSE Returned([i \in 1..n |-> base[i] + IF i \in extra THEN 1 ELSE 0])

----------------------------------------------------------------------------
(* Direct calls of the allocator, as the tests make them *)

\* st.session_state without an 'all_predictions' entry
NoPredictions == [present |-> FALSE, all_predictions |-> <<>>]

\* the sidebar's default seasonal coefficients, in tenths (1.5, 1.4, 1.3, 1.2)
DefaultSeasons == [spring |-> 15, summer |-> 14, autumn |-> 13, winter |-> 12]

\* no batch is being calculated
NoBatch ==
    /\ input_df = <<>> /\ index = 0 /\ all_predictions = <<>>
    /\ enable_shipping_adjust = FALSE
    /\ coeff_season = DefaultSeasons
    /\ session_state = NoPredictions

\* distribution_ratio=None
None == [given |-> FALSE, num |-> <<>>, den |-> 1]

\* no call of predict_single_house is being modelled
NoHouse == [identity |-> <<"", "", "", "", "">>, area_tsubo |-> 0, coeff |-> 0,
            blackout_date |-> 0, days_to_start |-> 0]

\* every list of up to MaxLen proportions k/d with d <= MaxDen, and the empty list
ProportionInputs ==
    { [num |-> <<>>, den |-> 1] }
    \cup UNION { { [num |-> s, den |-> d] : s \in SeqsUpTo(0..d, MaxLen) } : d \in 1..MaxDen }

\* largest_remainder_method(49, [1/49, 16/49, 32/49]): the three floats sum
\* to 1.0 and each product is a float just below the integer it stands for
FortyNinths == [total |-> 49, proportions |-> [num |-> <<1, 16, 32>>, den |-> 49]]

InitAlloc ==
    /\ pc = "call"
    /\ \/ /\ total_integer \in (0 - MaxNeg)..MaxTotal
          /\ proportions \in ProportionInputs
       \/ /\ total_integer = FortyNinths.total
          /\ proportions = FortyNinths.proportions
    /\ rounding \in RoundingErrors(total_integer, proportions)
    /\ alloc = Raised("none")
    /\ house = NoHouse /\ distribution_ratio = None
    /\ total_boxes = 0 /\ outcome = "none"
    /\ records = <<>> /\ adjusted = <<>> /\ readjusted = <<>>
    /\ NoBatch

Allocate ==
    /\ pc = "call"
    /\ alloc' = largest_remainder_method(total_integer, proportions, rounding)
    /\ pc' = "done"
    /\ UNCHANGED <<total_integer, proportions, rounding, houseVars, adjustVars, batchVars>>

NextAlloc == Allocate

SpecAlloc == InitAlloc /\ [][NextAlloc]_vars

----------------------------------------------------------------------------
(* adjust_to_shipping_days, calc.py 126-203 *)

DaysPerWeek == 7

\* original_date.weekday(): Mon=0 .. Sun=6
weekday(d) == d % DaysPerWeek

\* faulty variant: Thursday moved by one day only
shift_days_thu_one(wd) ==
    CASE wd = 1 -> 1 [] wd = 3 -> 1 [] wd = 4 -> 1 [] wd = 6 -> 1 [] OTHER -> 0

\* faulty variant: Saturday shipments moved on to Monday
shift_days_sat_moves(wd) ==
    CASE wd = 1 -> 1 [] wd = 3 -> 2 [] wd = 4 -> 1 [] wd = 5 -> 2 [] wd = 6 -> 1
      [] OTHER -> 0

\* faulty variant: Sunday moved to the Monday of its own week
shift_days_sun_back(wd) ==
    CASE wd = 1 -> 1 [] wd = 3 -> 2 [] wd = 4 -> 1 [] wd = 6 -> 0 - 6 [] OTHER -> 0

\* the if/elif chain on the weekday
shift_days(wd) ==
    CASE wd = 0 -> 0      \* Mon
      [] wd = 1 -> 1      \* Tue -> Wed
      [] wd = 2 -> 0      \* Wed
      [] wd = 3 -> 2      \* Thu -> Sat
      [] wd = 4 -> 1      \* Fri -> Sat
      [] wd = 5 -> 0      \* Sat
      [] wd = 6 -> 1      \* Sun -> Mon (next day)
      [] OTHER -> 0

\* new_date = original_date + datetime.timedelta(days=shift_days)
new_date(r) == r.date + shift_days(weekday(r.date))

\* faulty variant: the key leaves the producer out
merge_key_no_producer(r) ==
    <<"", r.house_name, r.variety, r.color, r.shape, new_date(r)>>

\* key = (prod, r['house_name'], r['variety'], r['color'], r['shape'], new_date)
merge_key(r) ==
    <<r.producer, r.house_name, r.variety, r.color, r.shape, new_date(r)>>

\* faulty variant: temp_map[key] = boxes in both branches
temp_map_overwrite(m, k, boxes) ==
    IF \E i \in 1..Len(m) : m[i].key = k
    THEN [i \in 1..Len(m) |->
            IF m[i].key = k THEN [key |-> k, boxes |-> boxes] ELSE m[i]]
    ELSE Append(m, [key |-> k, boxes |-> boxes])

\* if key in temp_map: temp_map[key] += boxes  else: temp_map[key] = boxes
\* The dict is a sequence of entries in insertion order, which is the order
\* temp_map.items() yields them in.
temp_map_add(m, k, boxes) ==
    IF \E i \in 1..Len(m) : m[i].key = k
    THEN [i \in 1..Len(m) |->
            IF m[i].key = k THEN [key |-> k, boxes |-> m[i].boxes + boxes] ELSE m[i]]
    ELSE Append(m, [key |-> k, boxes |-> boxes])

\* temp_map after the loop `for r in records`
RECURSIVE temp_map(_)
temp_map(recs) ==
    IF recs = <<>> THEN <<>>
    ELSE LET r == recs[Len(recs)]
             before == temp_map(SubSeq(recs, 1, Len(recs) - 1))
             k == merge_key(r)
         IN temp_map_add(before, k, r.boxes)

\* adjusted_records before the sort: one record per entry of temp_map
reconstructed(recs) ==
    LET m == temp_map(recs)
    IN [i \in 1..Len(m) |->
          [date |-> m[i].key[6], producer |-> m[i].key[1], house_name |-> m[i].key[2],
           variety |-> m[i].key[3], color |-> m[i].key[4], shape |-> m[i].key[5],
           boxes |-> m[i].boxes]]

\* faulty variant: the list is returned in the order of temp_map
sort_by_date_skipped(l) == l

\* list.sort(key=lambda x: x['date']): ascending and stable
sort_by_date(l) ==
    LET n == Len(l)
        \* SubSeq(s, 1, Len(s)) is s, held as an evaluated tuple
        ll == SubSeq(l, 1, n)
        rank == SubSeq([i \in 1..n |-> Cardinality({j \in 1..n :
                    ll[j].date < ll[i].date \/ (ll[j].date = ll[i].date /\ j < i)})], 1, n)
    IN [k \in 1..n |-> ll[CHOOSE i \in 1..n : rank[i] = k - 1]]

adjust_to_shipping_days(recs) == sort_by_date(reconstructed(recs))

----------------------------------------------------------------------------
(* Direct calls of the adjuster on any record list *)

\* two identities that differ in the producer only
Identities ==
    { <<"P1", "H1", "V1", "pink", "single">>,
      <<"", "H1", "V1", "pink", "single">> }

\* one week, Monday to Sunday, and the Monday after it
Dates == 0..DaysPerWeek

RecordInputs ==
    { ShipmentRecord(id, d, b) : id \in Identities, d \in Dates, b \in 0..MaxBoxes }

InitAdjust ==
    /\ pc = "build"
    /\ records = <<>> /\ adjusted = <<>> /\ readjusted = <<>>
    /\ NoBatch
    /\ total_integer = 0
    /\ proportions = [num |-> <<>>, den |-> 1]
    /\ rounding = <<>>
    /\ alloc = Raised("none")
    /\ house = NoHouse /\ distribution_ratio = None
    /\ total_boxes = 0 /\ outcome = "none"

\* the caller puts one more record on the list
AppendRecord ==
    /\ pc = "build"
    /\ Len(records) < MaxRecs
    /\ \E r \in RecordInputs : records' = Append(records, r)
    /\ UNCHANGED <<pc, adjusted, readjusted, allocVars, houseVars, batchVars>>

\* adjusted = adjust_to_shipping_days(records), on a list the caller built
\* or on the list predict_single_house returned
Adjust ==
    /\ pc \in {"build", "predicted"}
    /\ adjusted' = adjust_to_shipping_days(records)
    /\ pc' = "adjusted"
    /\ UNCHANGED <<records, readjusted, allocVars, houseVars, batchVars>>

\* readjusted = adjust_to_shipping_days(adjusted)
AdjustAgain ==
    /\ pc = "adjusted"
    /\ readjusted' = adjust_to_shipping_days(adjusted)
    /\ pc' = "readjusted"
    /\ UNCHANGED <<records, adjusted, allocVars, houseVars, batchVars>>

NextAdjust == AppendRecord \/ Adjust \/ AdjustAgain

SpecAdjust == InitAdjust /\ [][NextAdjust]_vars

----------------------------------------------------------------------------
(* predict_single_house, calc.py 38-103 *)

\* the default ratio for 14 days, in ten-thousandths
default_distribution_ratio ==
    [num |-> <<314, 952, 1404, 1543, 1442, 1218, 958,
               716, 515, 358, 244, 162, 106, 68>>,
     den |-> 10000]

\* if distribution_ratio is None: distribution_ratio = [0.0314, ...]
effective_ratio(dr) ==
    IF dr.given THEN [num |-> dr.num, den |-> dr.den] ELSE default_distribution_ratio

\* 0.99 < total_ratio < 1.01, total_ratio = sum(distribution_ratio).  A float
\* sum whose exact value is 0.99 or 1.01 can fall on either side.
in_band(p) ==
    LET s == SumSeq(p.num)
    IN IF 100 * s = 99 * p.den \/ 100 * s = 101 * p.den THEN {TRUE, FALSE}
       ELSE { 99 * p.den < 100 * s /\ 100 * s < 101 * p.den }

\* faulty variant: the pattern is left as it is
normalized_unscaled(p) == p

\* distribution_ratio = [r / total_ratio for r in distribution_ratio]
normalized(p) == [num |-> p.num, den |-> SumSeq(p.num)]

\* coeff is held in tenths
CoeffScale == 10

\* n / d is a dyadic rational: the float holds it exactly
IsDyadic(n, d) == \E k \in 0..d : (n * 2^k) % d = 0

\* int(round(area_tsubo * coeff)): Python rounds an exact half to the even
\* neighbour; a product that is a half only before float rounding can go to
\* either neighbour.
round_area_coeff(area, coeff) ==
    LET q == area * coeff
        k == q \div CoeffScale
        r == q % CoeffScale
    IN IF 2 * r < CoeffScale THEN {k}
       ELSE IF 2 * r > CoeffScale THEN {k + 1}
       ELSE IF IsDyadic(coeff, CoeffScale) THEN {IF k % 2 = 0 THEN k ELSE k + 1}
       ELSE {k, k + 1}

\* the r / total_ratio of the normalisation divides by zero
divides_by_zero(dr, band) ==
    ~band /\ Len(effective_ratio(dr).num) > 0 /\ SumSeq(effective_ratio(dr).num) = 0

\* the ratio handed to the allocator
allocator_ratio(dr, band) ==
    IF band THEN effective_ratio(dr) ELSE normalized(effective_ratio(dr))

\* faulty variant: the first record is dated one day after the start date
predict_single_house_late(h, dr, band, total, err) ==
    IF divides_by_zero(dr, band) THEN Raised("ZeroDivisionError")
    ELSE LET start_date == h.blackout_date + h.days_to_start
             daily_boxes == largest_remainder_method(total, allocator_ratio(dr, band), err)
         IN IF daily_boxes.status # "ok" THEN Raised(daily_boxes.status)
            ELSE Returned([i \in 1..Len(daily_boxes.value) |->
                    ShipmentRecord(h.identity, start_date + i, daily_boxes.value[i])])

\* the whole function, given the outcome `band` of the tolerance test, the
\* rounded total and the rounding errors of the allocator's products
predict_single_house(h, dr, band, total, err) ==
    IF divides_by_zero(dr, band) THEN Raised("ZeroDivisionError")
    ELSE LET start_date == h.blackout_date + h.days_to_start
             daily_boxes == largest_remainder_method(total, allocator_ratio(dr, band), err)
         IN IF daily_boxes.status # "ok" THEN Raised(daily_boxes.status)
            ELSE Returned([i \in 1..Len(daily_boxes.value) |->
                    ShipmentRecord(h.identity, start_date + (i - 1), daily_boxes.value[i])])

----------------------------------------------------------------------------
(* Calls of predict_single_house, followed by the adjuster as in app.py *)

\* area_tsubo; coeff in tenths (0.5, 1.2); day numbers
Areas == {0 - 5, 0 - 1, 0, 5, 100}
Coeffs == {5, 12}
BlackoutDates == {0, 3}
DaysToStart == {49, 52}

HouseInputs ==
    [identity : Identities,
     area_tsubo : Areas, coeff : Coeffs,
     blackout_date : BlackoutDates, days_to_start : DaysToStart]

Pattern(s, d) == [given |-> TRUE, num |-> s, den |-> d]

\* patterns in thousandths whose sum is inside, on the edge of or just
\* outside the tolerance band, and the pattern of the tests
BandPatterns ==
    { Pattern(<<500, 509>>, 1000), Pattern(<<500, 491>>, 1000),
      Pattern(<<995>>, 1000), Pattern(<<1005>>, 1000),
      Pattern(<<500, 490>>, 1000), Pattern(<<500, 510>>, 1000),
      Pattern(<<500, 520>>, 1000), Pattern(<<330, 330, 340>>, 1000),
      Pattern(<<483, 508>>, 1000) }

PatternInputs ==
    {None, Pattern(<<>>, 1)} \cup BandPatterns
    \cup UNION { { Pattern(s, d) : s \in SeqsUpTo(0..d, MaxLen) } : d \in 1..MaxPatDen }

InitPredict ==
    /\ pc = "call"
    /\ house \in HouseInputs
    /\ distribution_ratio \in PatternInputs
    /\ total_boxes = 0 /\ outcome = "none"
    /\ total_integer = 0
    /\ proportions = [num |-> <<>>, den |-> 1]
    /\ rounding = <<>>
    /\ alloc = Raised("none")
    /\ records = <<>> /\ adjusted = <<>> /\ readjusted = <<>>
    /\ NoBatch

\* preds = predict_single_house(...); the allocator variables hold the call
\* it makes of largest_remainder_method
Predict ==
    /\ pc = "call"
    /\ \E band \in in_band(effective_ratio(distribution_ratio)) :
       \E total \in round_area_coeff(house.area_tsubo, house.coeff) :
          IF divides_by_zero(distribution_ratio, band)
          THEN /\ outcome' = "ZeroDivisionError"
               /\ pc' = "raised"
               /\ UNCHANGED <<total_boxes, records, allocVars>>
          ELSE \E err \in RoundingErrors(total, allocator_ratio(distribution_ratio, band)) :
                 LET preds == predict_single_house(house, distribution_ratio,
                                                   band, total, err)
                     ratio == allocator_ratio(distribution_ratio, band)
                 IN /\ total_boxes' = total
                    /\ total_integer' = total
                    /\ proportions' = ratio
                    /\ rounding' = err
                    /\ alloc' = largest_remainder_method(total, ratio, err)
                    /\ outcome' = preds.status
                    /\ records' = preds.value
                    /\ pc' = IF preds.status = "ok" THEN "predicted" ELSE "raised"
    /\ UNCHANGED <<house, distribution_ratio, adjusted, readjusted, batchVars>>

NextPredict == Predict \/ Adjust

SpecPredict == InitPredict /\ [][NextPredict]_vars

----------------------------------------------------------------------------
(* The sidebar settings and the calculation loop of app.py *)

\* datetime.date: day 0 is Monday 2024-01-01; the days of 2024 and 2025
DaysInMonth(leap) ==
    <<31, IF leap THEN 29 ELSE 28, 31, 30, 31, 30, 31, 31, 30, 31, 30, 31>>

\* target_date.month
month(d) ==
    LET leap == d < 366
        doy == IF leap THEN d ELSE d - 366
        lens == DaysInMonth(leap)
    IN CHOOSE m \in 1..12 :
          /\ SumSeq(SubSeq(lens, 1, m - 1)) <= doy
          /\ doy < SumSeq(SubSeq(lens, 1, m))

\* the dict seasonal_coeffs, as its set of (key, value) items
seasonal_coeffs(cs) ==
    { <<3, cs.spring>>, <<4, cs.spring>>, <<5, cs.spring>>,
      <<6, cs.summer>>, <<7, cs.summer>>, <<8, cs.summer>>,
      <<9, cs.autumn>>, <<10, cs.autumn>>, <<11, cs.autumn>>,
      <<12, cs.winter>>, <<1, cs.winter>>, <<2, cs.winter>> }

\* seasonal_coeffs.get(target_date.month, 1.2)
get_coeff_for_date(cs, target_date) ==
    LET items == { e \in seasonal_coeffs(cs) : e[1] = month(target_date) }
    IN IF items = {} THEN 12 ELSE (CHOOSE e \in items : TRUE)[2]

\* a cell of the input sheet: empty/NaN/unparseable, or holding a value
Missing == [given |-> FALSE, value |-> 0]
Given(v) == [given |-> TRUE, value |-> v]

\* weeks are held in halves; w = 7.0 when the cell is empty
WeekScale == 2
DefaultWeeks == 14

\* w = 7.0 if the cell is empty else float(w_raw)
row_weeks(row) == IF row.weeks.given THEN row.weeks.value ELSE DefaultWeeks

\* int(round(w*7)): a multiple of a half is exact in a float, and an exact
\* half is rounded to the even neighbour
round_weeks(w) ==
    LET n == w * DaysPerWeek
        k == n \div WeekScale
    IN IF n % WeekScale = 0 THEN k ELSE IF k % 2 = 0 THEN k ELSE k + 1

\* faulty variant: the season is that of the blackout date
row_coeff_at_blackout(cs, row) ==
    IF row.coeff.given THEN row.coeff.value
    ELSE get_coeff_for_date(cs, row.blackout_date.value)

\* c: the season's coefficient at the flowering date if the cell is empty,
\* else float(c_raw)
row_coeff(cs, row) ==
    IF row.coeff.given THEN row.coeff.value
    ELSE get_coeff_for_date(cs, row.blackout_date.value + round_weeks(row_weeks(row)))

\* the arguments of the row's call of predict_single_house
row_house(cs, row) ==
    [identity |-> row.identity, area_tsubo |-> row.area_tsubo,
     coeff |-> row_coeff(cs, row),
     blackout_date |-> row.blackout_date.value,
     days_to_start |-> round_weeks(row_weeks(row))]

\* the sidebar's default 9-day pattern, in ten-thousandths, and its 14-day
\* pattern; both sum to 1, so normalized_ratios = user_ratios
UIPatterns ==
    { Pattern(<<224, 1269, 2148, 2218, 1746, 1212, 783, 325, 75>>, 10000),
      Pattern(default_distribution_ratio.num, default_distribution_ratio.den) }

SeasonInputs ==
    { DefaultSeasons, [spring |-> 10, summer |-> 20, autumn |-> 8, winter |-> 6] }

\* a row flowering on 2024-02-29, and rows that differ from it in one cell:
\* flowering on 03-01, 06-01 and 09-01, no blackout date, 7.5 weeks, a
\* coefficient of 0.5, a negative area
BaseRow ==
    [identity |-> <<"P1", "H1", "V1", "pink", "single">>, area_tsubo |-> 10,
     blackout_date |-> Given(10), weeks |-> Missing, coeff |-> Missing]

RowInputs ==
    { BaseRow,
      [BaseRow EXCEPT !.blackout_date = Given(11)],
      [BaseRow EXCEPT !.blackout_date = Given(103)],
      [BaseRow EXCEPT !.blackout_date = Given(195)],
      [BaseRow EXCEPT !.blackout_date = Missing],
      [BaseRow EXCEPT !.weeks = Given(15)],
      [BaseRow EXCEPT !.coeff = Given(5)],
      [BaseRow EXCEPT !.area_tsubo = 0 - 5] }

\* the entry a previous run left in st.session_state
StalePredictions ==
    [present |-> TRUE,
     all_predictions |-> <<ShipmentRecord(BaseRow.identity, 0, 1)>>]

InitBatch ==
    /\ pc = "loop"
    /\ input_df \in SeqsUpTo(RowInputs, MaxRows)
    /\ index = 1
    /\ all_predictions = <<>>
    /\ enable_shipping_adjust \in BOOLEAN
    /\ coeff_season \in SeasonInputs
    /\ session_state \in {NoPredictions, StalePredictions}
    /\ distribution_ratio \in UIPatterns
    /\ house = NoHouse
    /\ total_boxes = 0 /\ outcome = "none"
    /\ total_integer = 0
    /\ proportions = [num |-> <<>>, den |-> 1]
    /\ rounding = <<>>
    /\ alloc = Raised("none")
    /\ records = <<>> /\ adjusted = <<>> /\ readjusted = <<>>

\* faulty variant: an invalid date ends the loop
SkipRowBreaks ==
    /\ pc = "loop" /\ index <= Len(input_df)
    /\ ~input_df[index].blackout_date.given
    /\ index' = Len(input_df) + 1
    /\ outcome' = "skipped"
    /\ UNCHANGED <<pc, house, distribution_ratio, total_boxes, allocVars, adjustVars,
                   input_df, all_predictions, enable_shipping_adjust, coeff_season,
                   session_state>>

\* one pass of the loop body on a row whose date is invalid: st.warning, continue
SkipRow ==
    /\ pc = "loop" /\ index <= Len(input_df)
    /\ ~input_df[index].blackout_date.given
    /\ index' = index + 1
    /\ outcome' = "skipped"
    /\ UNCHANGED <<pc, house, distribution_ratio, total_boxes, allocVars, adjustVars,
                   input_df, all_predictions, enable_shipping_adjust, coeff_season,
                   session_state>>

\* one pass of the loop body on a row with a date: predict_single_house,
\* adjust_to_shipping_days if enabled, all_predictions.extend(preds); an
\* exception is reported by st.error and the loop goes on
ProcessRow ==
    /\ pc = "loop" /\ index <= Len(input_df)
    /\ input_df[index].blackout_date.given
    /\ LET h == row_house(coeff_season, input_df[index])
       IN \E band \in in_band(effective_ratio(distribution_ratio)) :
          \E total \in round_area_coeff(h.area_tsubo, h.coeff) :
          \E err \in RoundingErrors(total, allocator_ratio(distribution_ratio, band)) :
          \E preds \in {predict_single_house(h, distribution_ratio, band, total, err)} :
             /\ house' = h
             /\ total_boxes' = total
             /\ outcome' = preds.status
             /\ records' = preds.value
             /\ adjusted' = IF enable_shipping_adjust
                            THEN adjust_to_shipping_days(records') ELSE <<>>
             /\ all_predictions' = all_predictions \o
                                     (IF enable_shipping_adjust THEN adjusted' ELSE records')
    /\ index' = index + 1
    /\ UNCHANGED <<pc, distribution_ratio, readjusted, allocVars, input_df,
                   enable_shipping_adjust, coeff_season, session_state>>

\* after the loop: the entry is set if all_predictions is non-empty, else deleted
Store ==
    /\ pc = "loop" /\ index > Len(input_df)
    /\ session_state' = IF all_predictions # <<>>
                        THEN [present |-> TRUE, all_predictions |-> all_predictions]
                        ELSE NoPredictions
    /\ pc' = "stored"
    /\ UNCHANGED <<allocVars, houseVars, adjustVars, input_df, index, all_predictions,
                   enable_shipping_adjust, coeff_season>>

NextBatch == SkipRow \/ ProcessRow \/ Store

SpecBatch == InitBatch /\ [][NextBatch]_vars

----------------------------------------------------------------------------
(* Properties of the allocator *)

SumsToOne(p) == SumSeq(p.num) = p.den

\* slot i received one of the leftover units
GotExtra(i) == alloc.value[i] = int_parts(total_integer, proportions, rounding)[i] + 1

Abs(x) == IF x < 0 THEN 0 - x ELSE x

\* C1: for every total >= 0 and every non-empty list of non-negative
\* proportions that sums to 1, the allocator returns a list of non-negative
\* integers of the same length whose sum is exactly the total.
AllocatorConservation ==
    (pc = "done" /\ total_integer >= 0 /\ SumsToOne(proportions)) =>
        /\ alloc.status = "ok"
        /\ Len(alloc.value) = Len(proportions.num)
        /\ \A i \in 1..Len(alloc.value) : alloc.value[i] \in Nat
        /\ SumSeq(alloc.value) = total_integer

\* a call with three slots and two leftover units has returned
AllocatorConservationWitness ==
    /\ pc = "done" /\ total_integer = MaxTotal /\ SumsToOne(proportions)
    /\ Len(proportions.num) = 3
    /\ leftover(total_integer, proportions, rounding) = 2
    /\ alloc.status = "ok"

\* C8: leftover units go to the slots in order of remainder descending and,
\* among equal remainders, in ascending original index: a slot never gets an
\* extra unit while a slot with a larger remainder, or an earlier slot with
\* the same remainder, does not; and allocate(5, [0.5, 0.5]) is [3, 2].
TieBreakDeterminism ==
    (pc = "done" /\ alloc.status = "ok") =>
        LET rem == remainders(total_integer, proportions, rounding)
            n == Len(proportions.num)
        IN /\ \A i, j \in 1..n :
                (GotExtra(j) /\ (FloatGreater(rem[i], rem[j]) \/ (rem[i] = rem[j] /\ i < j)))
                    => GotExtra(i)
           /\ \A i \in 1..n :
                alloc.value[i] \in { int_parts(total_integer, proportions, rounding)[i],
                                     int_parts(total_integer, proportions, rounding)[i] + 1 }
           /\ (total_integer = 5 /\ Len(proportions.num) = 2
               /\ 2 * proportions.num[1] = proportions.den
               /\ 2 * proportions.num[2] = proportions.den)
                    => alloc.value = <<3, 2>>

\* allocate(5, [0.5, 0.5]) has returned [3, 2]: a tie, won by the first slot
TieBreakWitness ==
    /\ pc = "done" /\ total_integer = 5
    /\ proportions = [num |-> <<1, 1>>, den |-> 2]
    /\ alloc = Returned(<<3, 2>>)

\* C9: for every total >= 0, proportions summing to 1 and slot i, the
\* allocated integer differs from total * proportions[i] by strictly less than 1.
AllocatorBoundedness ==
    (pc = "done" /\ total_integer >= 0 /\ SumsToOne(proportions)) =>
        /\ alloc.status = "ok"
        /\ \A i \in 1..Len(proportions.num) :
              Abs(alloc.value[i] * proportions.den - total_integer * proportions.num[i])
                  < proportions.den

\* a slot with a non-zero remainder was rounded up and another one down
AllocatorBoundednessWitness ==
    /\ pc = "done" /\ total_integer > 0 /\ SumsToOne(proportions)
    /\ alloc.status = "ok"
    /\ \E i, j \in 1..Len(proportions.num) :
          /\ GotExtra(i) /\ ~GotExtra(j)
          /\ remainders(total_integer, proportions, rounding)[i].x > 0
          /\ remainders(total_integer, proportions, rounding)[j].x > 0

\* C10: a negative total is rejected with ValueError, whatever the
\* proportions, and no allocation is returned.
NegativeTotalRejected ==
    (pc = "done" /\ total_integer < 0) =>
        (alloc.status = "ValueError" /\ alloc.value = <<>>)

\* a call with a negative total and proportions summing to 1 has raised
NegativeTotalWitness ==
    /\ pc = "done" /\ total_integer < 0 /\ SumsToOne(proportions)
    /\ Len(proportions.num) > 1
    /\ alloc.status = "ValueError"

\* the number of slots that received one of the leftover units
ExtraSlots == Cardinality({i \in 1..Len(alloc.value) : GotExtra(i)})

\* C19: for every total >= 0 and proportions summing to 1,
\* 0 <= leftover < len(proportions); the loop over the first `leftover`
\* sorted slots stays inside the list and adds at most 1 to any slot.
LeftoverBound ==
    (pc = "done" /\ total_integer >= 0 /\ SumsToOne(proportions)) =>
        /\ 0 <= leftover(total_integer, proportions, rounding)
        /\ leftover(total_integer, proportions, rounding) < Len(proportions.num)
        /\ alloc.status = "ok"
        /\ \A i \in 1..Len(alloc.value) :
              alloc.value[i] - int_parts(total_integer, proportions, rounding)[i] \in {0, 1}

\* C19 with the bound the floats allow: 0 <= leftover <= len(proportions);
\* the loop stays inside the list and adds 1 to exactly `leftover` slots, at
\* most 1 to any slot.
LeftoverBoundInclusive ==
    (pc = "done" /\ total_integer >= 0 /\ SumsToOne(proportions)) =>
        /\ 0 <= leftover(total_integer, proportions, rounding)
        /\ leftover(total_integer, proportions, rounding) <= Len(proportions.num)
        /\ alloc.status = "ok"
        /\ \A i \in 1..Len(alloc.value) :
              alloc.value[i] - int_parts(total_integer, proportions, rounding)[i] \in {0, 1}
        /\ ExtraSlots = leftover(total_integer, proportions, rounding)

\* 49 split over [1/49, 16/49, 32/49]: every product floors one below its
\* integer, leftover is 3 = len(proportions), each slot gets one unit
LeftoverBoundInclusiveWitness ==
    /\ pc = "done"
    /\ total_integer = FortyNinths.total /\ proportions = FortyNinths.proportions
    /\ rounding = <<0 - 1, 0 - 1, 0 - 1>>
    /\ int_parts(total_integer, proportions, rounding) = <<0, 15, 31>>
    /\ leftover(total_integer, proportions, rounding) = 3
    /\ alloc = Returned(<<1, 16, 32>>)

----------------------------------------------------------------------------
(* Properties of the calendar adjuster *)

Identity(r) == <<r.producer, r.house_name, r.variety, r.color, r.shape>>

RECURSIVE SumBoxes(_)
SumBoxes(recs) == IF recs = <<>> THEN 0 ELSE Head(recs).boxes + SumBoxes(Tail(recs))

\* the records of a list that satisfy a test, in order
Where(recs, Test(_)) == SelectSeq(recs, Test)

BoxesOfIdentity(recs, id) == LET T(r) == Identity(r) = id IN SumBoxes(Where(recs, T))

BoxesOn(recs, id, d) ==
    LET T(r) == Identity(r) = id /\ r.date = d IN SumBoxes(Where(recs, T))

Count(recs, r) == Cardinality({i \in 1..Len(recs) : recs[i] = r})

SameBag(a, b) ==
    /\ Len(a) = Len(b)
    /\ \A i \in 1..Len(a) : Count(a, a[i]) = Count(b, a[i])

Adjusted == pc \in {"adjusted", "readjusted"}

\* C3: every record the adjuster returns is dated on a Monday, a Wednesday
\* or a Saturday.
OutputOnShippingDays ==
    Adjusted => \A i \in 1..Len(adjusted) : adjusted[i].date % 7 \in {0, 2, 5}

\* a Tuesday and a Sunday record went in and two records came out
OutputOnShippingDaysWitness ==
    /\ pc = "adjusted" /\ Len(records) = 2 /\ Len(adjusted) = 2
    /\ records[1].date = 1 /\ records[2].date = 6
    /\ adjusted[1].date = 2 /\ adjusted[2].date = 7

\* C4: the adjuster's output holds as many boxes as its input, in total and
\* for each identity (producer, house_name, variety, color, shape).
AdjusterConservation ==
    Adjusted =>
        /\ SumBoxes(adjusted) = SumBoxes(records)
        /\ \A id \in Identities :
              BoxesOfIdentity(adjusted, id) = BoxesOfIdentity(records, id)

\* two one-box records of one identity were merged into one record
AdjusterConservationWitness ==
    /\ pc = "adjusted" /\ Len(records) = 2 /\ Len(adjusted) = 1
    /\ records[1].boxes = 1 /\ records[2].boxes = 1
    /\ records[1].date # records[2].date
    /\ adjusted[1].boxes = 2

\* C5: the output holds at most one record per (identity, adjusted date),
\* whose boxes is the sum over the input records remapped to that key; a
\* Thursday and a Friday record of one identity and one week give a single
\* Saturday record holding both.
MergePerKey ==
    Adjusted =>
        /\ \A i, j \in 1..Len(adjusted) :
              (Identity(adjusted[i]) = Identity(adjusted[j])
                 /\ adjusted[i].date = adjusted[j].date) => i = j
        /\ \A i \in 1..Len(adjusted) :
              LET T(r) == Identity(r) = Identity(adjusted[i])
                          /\ new_date(r) = adjusted[i].date
              IN adjusted[i].boxes = SumBoxes(Where(records, T))
        /\ \A i \in 1..Len(records) : \E j \in 1..Len(adjusted) :
              Identity(adjusted[j]) = Identity(records[i])
                 /\ adjusted[j].date = new_date(records[i])
        /\ (Len(records) = 2 /\ Identity(records[1]) = Identity(records[2])
            /\ {records[1].date, records[2].date} = {3, 4})
              => adjusted = <<[records[1] EXCEPT !.date = 5,
                                  !.boxes = records[1].boxes + records[2].boxes]>>

\* a Thursday and a Friday record of one identity became one Saturday record
MergePerKeyWitness ==
    /\ pc = "adjusted" /\ Len(records) = 2
    /\ Identity(records[1]) = Identity(records[2])
    /\ records[1].date = 3 /\ records[2].date = 4
    /\ records[1].boxes = 1 /\ records[2].boxes = 1
    /\ Len(adjusted) = 1 /\ adjusted[1].date = 5 /\ adjusted[1].boxes = 2

\* C6: adjusting the adjuster's output again gives the same records (as a
\* multiset).
AdjusterIdempotent ==
    pc = "readjusted" => SameBag(readjusted, adjusted)

\* the second pass ran on two records that the first pass had moved
AdjusterIdempotentWitness ==
    /\ pc = "readjusted" /\ Len(records) = 2 /\ Len(adjusted) = 2
    /\ \A i \in 1..2 : new_date(records[i]) # records[i].date
    /\ Len(readjusted) = 2

\* the shift the weekday remap rule gives: Mon 0, Tue +1, Wed 0, Thu +2,
\* Fri +1, Sat 0, Sun +1
RuleShift(d) == <<0, 1, 0, 2, 1, 0, 1>>[(d % 7) + 1]

\* C7: every input record's boxes are placed on original date + shift of the
\* weekday remap rule (never backward, never more than 2 days; Sunday to the
\* next day, Thursday to the Saturday 2 days later).
WeekdayRemapRule ==
    Adjusted =>
        /\ \A i \in 1..Len(records) : \E j \in 1..Len(adjusted) :
              /\ Identity(adjusted[j]) = Identity(records[i])
              /\ adjusted[j].date = records[i].date + RuleShift(records[i].date)
        /\ \A id \in Identities : \A d \in 0..(DaysPerWeek + 2) :
              LET T(r) == Identity(r) = id /\ r.date + RuleShift(r.date) = d
              IN BoxesOn(adjusted, id, d) = SumBoxes(Where(records, T))

\* a Sunday record landed on the Monday after it, a Thursday record on Saturday
WeekdayRemapRuleWitness ==
    /\ pc = "adjusted" /\ Len(records) = 2
    /\ records[1].date = 6 /\ records[2].date = 3
    /\ records[1].boxes = 1 /\ records[2].boxes = 1
    /\ Len(adjusted) = 2
    /\ adjusted[1].date = 5 /\ adjusted[2].date = 7

\* a list of records in which no record is dated before its predecessor
SortedByDate(l) == \A i \in 1..(Len(l) - 1) : l[i].date <= l[i + 1].date

\* C18: the list the adjuster returns is in ascending order of date (each
\* record's date is <= the next one's), whatever the order of its input.
OutputOrdering ==
    /\ Adjusted => SortedByDate(adjusted)
    /\ pc = "readjusted" => SortedByDate(readjusted)

\* a list holding a Saturday record before a Monday record of the same week
\* came out with the Monday record first
OutputOrderingWitness ==
    /\ pc = "adjusted" /\ Len(records) = 2
    /\ records[1].date = 5 /\ records[2].date = 0
    /\ Len(adjusted) = 2
    /\ adjusted[1].date = 0 /\ adjusted[2].date = 5
    /\ adjusted[1].boxes = records[2].boxes

----------------------------------------------------------------------------
(* Properties of the shipment generator *)

\* a call with a non-negative area, a positive coefficient and a non-empty
\* pattern of non-negative fractions with a positive sum
ValidHouseCall ==
    /\ house.area_tsubo >= 0 /\ house.coeff > 0
    /\ Len(effective_ratio(distribution_ratio).num) > 0
    /\ SumSeq(effective_ratio(distribution_ratio).num) > 0

\* C2: for every valid call, rescaled or not, the boxes of the returned
\* records sum to round(area * coefficient), and still do after
\* adjust_to_shipping_days is applied to them.
PerHouseConservation ==
    (ValidHouseCall /\ pc \in {"predicted", "adjusted"}) =>
        /\ SumBoxes(records) = total_boxes
        /\ pc = "adjusted" => SumBoxes(adjusted) = total_boxes

\* What the code does guarantee: the same, for the calls whose pattern, as
\* handed to the allocator, sums to 1.
PerHouseConservationNormalized ==
    (ValidHouseCall /\ pc \in {"predicted", "adjusted"} /\ SumsToOne(proportions)) =>
        /\ SumBoxes(records) = total_boxes
        /\ pc = "adjusted" => SumBoxes(adjusted) = total_boxes

\* a rescaled pattern of three days was split and then adjusted
PerHouseConservationNormalizedWitness ==
    /\ ValidHouseCall /\ pc = "adjusted" /\ total_boxes = 120
    /\ SumSeq(distribution_ratio.num) # distribution_ratio.den
    /\ Len(records) = 3 /\ Len(adjusted) < 3
    /\ SumBoxes(adjusted) = 120

\* the call of predict_single_house returned its list of records
Predicted == pc \in {"predicted", "adjusted"}

\* C11: a successful call with pattern P returns exactly len(P) records;
\* record i (0-based) is dated blackout_date + days_to_start + i, so the dates
\* rise by one day from blackout_date + days_to_start; every record carries
\* the call's producer, house_name, variety, color and shape.
GeneratorShape ==
    Predicted =>
        LET P == effective_ratio(distribution_ratio).num
        IN /\ Len(records) = Len(P)
           /\ \A i \in 1..Len(records) :
                 /\ records[i].date = house.blackout_date + house.days_to_start + (i - 1)
                 /\ Identity(records[i]) = house.identity
           /\ \A i \in 1..(Len(records) - 1) : records[i + 1].date = records[i].date + 1

\* a call with a three-day pattern, a producer, a blackout date other than
\* day 0 and 52 days to the start returned three records holding boxes
GeneratorShapeWitness ==
    /\ pc = "predicted" /\ Len(distribution_ratio.num) = 3
    /\ house.blackout_date = 3 /\ house.days_to_start = 52
    /\ house.identity[1] = "P1"
    /\ Len(records) = 3 /\ records[1].date = 55 /\ records[3].date = 57
    /\ SumBoxes(records) > 0

\* C12: a call with the pattern unset (None) or empty (zero-length), a
\* non-negative area and a positive coefficient uses the built-in 14-day
\* default pattern and returns 14 records.
DefaultPattern ==
    (pc # "call" /\ house.area_tsubo >= 0 /\ house.coeff > 0
       /\ (~distribution_ratio.given \/ Len(distribution_ratio.num) = 0)) =>
        /\ outcome = "ok"
        /\ proportions = default_distribution_ratio
        /\ Len(records) = 14

\* What the code does: the unset pattern alone is replaced by the default.
DefaultPatternUnset ==
    (pc # "call" /\ house.area_tsubo >= 0 /\ house.coeff > 0
       /\ ~distribution_ratio.given) =>
        /\ outcome = "ok"
        /\ proportions = default_distribution_ratio
        /\ Len(records) = 14

\* a call without a pattern returned 14 records holding 120 boxes
DefaultPatternUnsetWitness ==
    /\ pc = "predicted" /\ ~distribution_ratio.given
    /\ Len(records) = 14 /\ SumBoxes(records) = 120

\* the empty pattern went to the allocator as it was and the call raised
EmptyPatternRaised ==
    /\ pc = "raised" /\ distribution_ratio = Pattern(<<>>, 1)
    /\ house.area_tsubo = 100 /\ house.coeff = 12
    /\ proportions.num = <<>> /\ outcome = "IndexError" /\ records = <<>>

\* C13: a call without a distribution pattern, with the default 49 days to
\* the start, returns exactly 9 records, the first dated blackout_date + 49.
NineDayDefault ==
    (pc # "call" /\ house.area_tsubo >= 0 /\ house.coeff > 0
       /\ ~distribution_ratio.given /\ house.days_to_start = 49) =>
        /\ outcome = "ok"
        /\ Len(records) = 9
        /\ records[1].date = house.blackout_date + 49

\* the call the tests make, predict_single_house("H1", "V1", 100, b_date, 1.2),
\* returned 14 records from blackout_date + 49 on
FourteenDayDefault ==
    /\ pc = "predicted" /\ ~distribution_ratio.given
    /\ house.area_tsubo = 100 /\ house.coeff = 12 /\ house.days_to_start = 49
    /\ Len(records) = 14
    /\ records[1].date = house.blackout_date + 49
    /\ records[14].date = house.blackout_date + 62

\* C14: every call with a negative area and a positive coefficient, or whose
\* total_boxes is negative, fails with ValueError and returns no records.
GeneratorErrors ==
    (pc # "call" /\ ((house.area_tsubo < 0 /\ house.coeff > 0) \/ total_boxes < 0)) =>
        (outcome = "ValueError" /\ records = <<>>)

\* What the code does: the allocator rejects a negative total_boxes, the
\* only check there is.
NegativeTotalBoxesRejected ==
    (pc # "call" /\ total_boxes < 0) => (outcome = "ValueError" /\ records = <<>>)

\* a call with area -5 and coefficient 1.2 raised ValueError
NegativeTotalBoxesWitness ==
    /\ pc = "raised" /\ house.area_tsubo = 0 - 5 /\ house.coeff = 12
    /\ total_boxes = 0 - 6 /\ outcome = "ValueError" /\ records = <<>>

\* a call with area -1 and coefficient 0.5 returned 14 records of 0 boxes
NegativeAreaAccepted ==
    /\ pc = "predicted" /\ house.area_tsubo = 0 - 1 /\ house.coeff = 5
    /\ ~distribution_ratio.given
    /\ total_boxes = 0 /\ outcome = "ok"
    /\ Len(records) = 14 /\ SumBoxes(records) = 0

----------------------------------------------------------------------------
(* Properties of the calculation loop *)

\* the row the loop body is about to run on
AtRow == pc = "loop" /\ index <= Len(input_df)

\* the records the pass that just ran added: the row's preds
Extended == IF enable_shipping_adjust THEN adjusted' ELSE records'

\* C15: a pass on a row whose blackout_date is missing or unparseable adds
\* no records and the loop goes on to the next row; every other pass adds
\* exactly the records of its row, if it succeeded, at the end of the
\* collection; the loop ends after the last row only, and what is stored is
\* the collection it built.
SkippedRowsDoNotAbort ==
    /\ [](pc = "stored" =>
            /\ index = Len(input_df) + 1
            /\ session_state.all_predictions = all_predictions
            /\ session_state.present = (all_predictions # <<>>))
    /\ [][ /\ AtRow => (index' = index + 1 /\ pc' = "loop")
           /\ (AtRow /\ ~input_df[index].blackout_date.given) =>
                 all_predictions' = all_predictions
           /\ (AtRow /\ input_df[index].blackout_date.given) =>
                 all_predictions' =
                    all_predictions \o (IF outcome' = "ok" THEN Extended ELSE <<>>)
           /\ ~AtRow => (pc' = "stored" /\ all_predictions' = all_predictions)
         ]_vars

\* a sheet whose first row has no date and whose second row is valid was
\* processed to the end: the stored set is the second row's 9 records
SkippedRowsWitness ==
    /\ pc = "stored" /\ Len(input_df) = 2 /\ index = 3
    /\ ~input_df[1].blackout_date.given /\ input_df[2] = BaseRow
    /\ ~enable_shipping_adjust
    /\ Len(records) = 9
    /\ session_state = [present |-> TRUE, all_predictions |-> records]

\* C16: with the adjustment enabled the stored collection is
\* adjust_to_shipping_days of all rows' records together, so no two of its
\* records have the same (producer, house_name, variety, color, shape, date).
BatchAdjustmentComplete ==
    (pc = "stored" /\ enable_shipping_adjust) =>
        LET final == session_state.all_predictions
        IN /\ SameBag(final, adjust_to_shipping_days(final))
           /\ \A i, j \in 1..Len(final) :
                 (Identity(final[i]) = Identity(final[j])
                    /\ final[i].date = final[j].date) => i = j

\* two rows of one house, blacked out one day apart, were adjusted row by
\* row: the stored collection holds two records of the house for one date
DuplicateKeysStored ==
    /\ pc = "stored" /\ enable_shipping_adjust
    /\ input_df = <<BaseRow, [BaseRow EXCEPT !.blackout_date = Given(11)]>>
    /\ \E i, j \in 1..Len(session_state.all_predictions) :
          /\ i < j
          /\ Identity(session_state.all_predictions[i])
                = Identity(session_state.all_predictions[j])
          /\ session_state.all_predictions[i].date
                = session_state.all_predictions[j].date

\* the band a month belongs to: 3-5 spring, 6-8 summer, 9-11 autumn,
\* 12, 1 and 2 winter
BandOf(m) ==
    CASE m \in 3..5 -> "spring" [] m \in 6..8 -> "summer"
      [] m \in 9..11 -> "autumn" [] m \in {12, 1, 2} -> "winter"

\* the pass that just ran called predict_single_house
RowCalled == index > 1 /\ outcome \notin {"none", "skipped"}

\* C17: every month 1..12 has exactly one entry in the month-to-coefficient
\* mapping, the value of its band; a row without a coefficient is predicted
\* with the band value of the month of blackout_date + round(weeks * 7),
\* which is the date of the row's first generated record; a row with a
\* coefficient is predicted with that coefficient.
SeasonalCoefficient ==
    /\ \A m \in 1..12 :
          { e[2] : e \in { x \in seasonal_coeffs(coeff_season) : x[1] = m } }
             = { coeff_season[BandOf(m)] }
    /\ Cardinality(seasonal_coeffs(coeff_season)) = 12
    /\ RowCalled =>
          LET row == input_df[index - 1]
              w2 == IF row.weeks.given THEN row.weeks.value ELSE 14
              days == IF w2 % 2 = 0 THEN (w2 * 7) \div 2
                      ELSE IF ((w2 * 7) \div 2) % 2 = 0 THEN (w2 * 7) \div 2
                      ELSE (w2 * 7) \div 2 + 1
              f_date == row.blackout_date.value + days
          IN /\ ~row.coeff.given => house.coeff = coeff_season[BandOf(month(f_date))]
             /\ row.coeff.given => house.coeff = row.coeff.value
             /\ (outcome = "ok" /\ records # <<>>) => records[1].date = f_date

\* a row without a coefficient, blacked out on 2024-01-12, was predicted
\* with the spring coefficient 1.0: its first record is dated 2024-03-01
SeasonalCoefficientWitness ==
    /\ RowCalled /\ outcome = "ok"
    /\ input_df[index - 1] = [BaseRow EXCEPT !.blackout_date = Given(11)]
    /\ coeff_season.spring = 10 /\ house.coeff = 10
    /\ records[1].date = 60 /\ month(60) = 3 /\ month(59) = 2
    /\ total_boxes = 10

\* predict_single_house got as far as its call of the allocator
AllocatorCalled == pc \in {"predicted", "adjusted", "raised"} /\ outcome # "ZeroDivisionError"

\* the sum of a pattern lies strictly inside, or strictly outside, (0.99, 1.01)
StrictlyInside(p) == 99 * p.den < 100 * SumSeq(p.num) /\ 100 * SumSeq(p.num) < 101 * p.den
StrictlyOutside(p) == 100 * SumSeq(p.num) < 99 * p.den \/ 101 * p.den < 100 * SumSeq(p.num)

GeneratorTotality ==
    /\ (ValidHouseCall /\ pc # "call") => (outcome = "ok" /\ Predicted)
    /\ (ValidHouseCall /\ pc = "raised") => total_boxes < 0

\* What the code does guarantee: a valid call whose pattern, as handed to
\* the allocator, sums to 1 returns its records.
GeneratorTotalityNormalized ==
    (ValidHouseCall /\ pc # "call" /\ SumsToOne(proportions)) =>
        (outcome = "ok" /\ Predicted /\ Len(records) = Len(proportions.num))

\* the pattern [0.483, 0.508], whose sum 0.991 is inside the band, went to
\* the allocator as it was with 120 boxes: leftover 3 for 2 slots, IndexError
InBandPatternRaised ==
    /\ pc = "raised" /\ ValidHouseCall
    /\ distribution_ratio = Pattern(<<483, 508>>, 1000)
    /\ house.area_tsubo = 100 /\ house.coeff = 12 /\ total_boxes = 120
    /\ proportions = [num |-> <<483, 508>>, den |-> 1000]
    /\ leftover(total_integer, proportions, rounding) = 3
    /\ outcome = "IndexError" /\ records = <<>>

====
